---- MODULE Spec2Model ----
(***************************************************************************)
(* Model of skydoc/rule.py: the view-model classes Attribute, Output, Rule *)
(* and RuleSet used to render documentation templates.                     *)
(*                                                                         *)
(* Representation of Python strings.  A string is a sequence of atoms.     *)
(* Paths and documentation texts, which the code inspects character by     *)
(* character (replace, startswith, slicing, split), are sequences of       *)
(* one-character atoms.  Display strings, which the code only builds by    *)
(* concatenation and %-formatting, are sequences whose atoms are the       *)
(* literals of the source and the input texts spliced between them;        *)
(* string concatenation is \o in both cases.                               *)
(***************************************************************************)
EXTENDS Integers, Sequences, FiniteSets, TLC

VARIABLES
    attr_proto,   \* the build_pb2.Attribute message given to Attribute(...)
    attribute,    \* the Attribute object built from it
    attr_done,    \* whether Attribute.__init__ has run
    rule_proto,   \* the build_pb2.RuleDefinition message given to Rule(...)
    rule,         \* the Rule object built from it
    rule_done,    \* whether Rule.__init__ has run
    args,         \* the arguments of RuleSet(...)
    ruleset,      \* the RuleSet object the caller holds (NoRuleSet: none)
    outcome,      \* "pending", "constructed" or "AssertionError"
    empty_called, \* whether ruleset.empty() has been called
    is_empty      \* the value that call returned

vars == <<attr_proto, attribute, attr_done, rule_proto, rule, rule_done,
          args, ruleset, outcome, empty_called, is_empty>>

(***************************************************************************)
(* Bounds of the model.                                                    *)
(***************************************************************************)
MaxAttrs == 3     \* attributes per rule in the Rule specification
MaxRules == 3     \* rule entries per RuleSet in the partition specification
MaxPieces == 4    \* path pieces per source path in the path specification

(***************************************************************************)
(* Python string helpers.                                                  *)
(***************************************************************************)
BZL == <<".", "b", "z", "l">>

\* str.startswith(prefix)
startswith(s, prefix) ==
    /\ Len(prefix) <= Len(s)
    /\ SubSeq(s, 1, Len(prefix)) = prefix

\* s[n:]
DropFirst(s, n) ==
    IF n >= Len(s) THEN <<>> ELSE SubSeq(s, n + 1, Len(s))

\* str.replace('.bzl', ''): every non-overlapping occurrence, scanning from
\* the left, is removed; the result is not scanned again.
RECURSIVE replace_bzl(_)
replace_bzl(s) ==
    IF Len(s) < Len(BZL) THEN s
    ELSE IF SubSeq(s, 1, Len(BZL)) = BZL
         THEN replace_bzl(DropFirst(s, Len(BZL)))
         ELSE <<Head(s)>> \o replace_bzl(Tail(s))

\* os.path.basename(p): the text after the last '/'
basename(p) ==
    LET slashes == {i \in 1..Len(p) : p[i] = "/"}
        last == IF slashes = {} THEN 0
                ELSE CHOOSE i \in slashes : \A j \in slashes : j <= i
    IN DropFirst(p, last)

\* documentation.split("\n\n")[0]: the text before the first blank line
FirstParagraph(doc) ==
    LET seps == {i \in 1..(Len(doc) - 1) : doc[i] = "\n" /\ doc[i + 1] = "\n"}
    IN IF seps = {} THEN doc
       ELSE SubSeq(doc, 1, (CHOOSE i \in seps : \A j \in seps : i <= j) - 1)

(***************************************************************************)
(* class Attribute                                                         *)
(***************************************************************************)
NAME_LINK == "<a href=\"https://bazel.build/docs/build-ref.html#name\">Name</a>"
LABEL_LINK == "<a href=\"https://bazel.build/docs/build-ref.html#labels\">Label</a>"
LABELS_LINK == "<a href=\"https://bazel.build/docs/build-ref.html#labels\">labels</a>"

\* The tags of build_pb2.Attribute which _get_type_str tests for.
KnownTypes ==
    {"INTEGER", "STRING", "LABEL", "OUTPUT", "STRING_LIST", "LABEL_LIST",
     "OUTPUT_LIST", "DISTRIBUTION_SET", "LICENSE", "STRING_DICT",
     "FILESET_ENTRY_LIST", "LABEL_LIST_DICT", "STRING_LIST_DICT", "BOOLEAN",
     "TRISTATE", "INTEGER_LIST", "LABEL_DICT_UNARY", "SELECTOR_LIST"}

\* Tags no branch of _get_type_str tests for.
OtherTypes == {"UNKNOWN", "STRING_DICT_UNARY"}

\* The if/elif chain of _get_type_str with the name test moved in front of
\* the tag tests.
TypeLabelNameFirst(proto) ==
    IF proto.name = "name" THEN <<NAME_LINK>>
    ELSE IF proto.type = "INTEGER" THEN <<"Integer">>
    ELSE IF proto.type = "STRING" THEN <<"String">>
    ELSE IF proto.type = "LABEL" THEN <<LABEL_LINK>>
    ELSE IF proto.type = "OUTPUT" THEN <<"Output">>
    ELSE IF proto.type = "STRING_LIST" THEN <<"List of strings">>
    ELSE IF proto.type = "LABEL_LIST" THEN <<"List of ", LABELS_LINK>>
    ELSE IF proto.type = "OUTPUT_LIST" THEN <<"List of outputs">>
    ELSE IF proto.type = "DISTRIBUTION_SET" THEN <<"Distribution Set">>
    ELSE IF proto.type = "LICENSE" THEN <<"License">>
    ELSE IF proto.type = "STRING_DICT"
         THEN <<"Dictionary mapping strings to string">>
    ELSE IF proto.type = "FILESET_ENTRY_LIST" THEN <<"List of FilesetEntry">>
    ELSE IF proto.type = "LABEL_LIST_DICT"
         THEN <<"Dictionary mapping strings to lists of ", LABELS_LINK>>
    ELSE IF proto.type = "STRING_LIST_DICT"
         THEN <<"Dictionary mapping strings to lists of strings">>
    ELSE IF proto.type = "BOOLEAN" THEN <<"Boolean">>
    ELSE IF proto.type = "TRISTATE" THEN <<"Tristate">>
    ELSE IF proto.type = "INTEGER_LIST" THEN <<"List of integers">>
    ELSE IF proto.type = "LABEL_DICT_UNARY" THEN <<"Label Dict Unary">>
    ELSE IF proto.type = "SELECTOR_LIST" THEN <<"Selector List">>
    ELSE <<"Unknown">>

\* The if/elif chain of _get_type_str: type_str before the suffixes.
TypeLabel(proto) ==
    IF proto.type = "INTEGER" THEN <<"Integer">>
    ELSE IF proto.type = "STRING" THEN <<"String">>
    ELSE IF proto.type = "LABEL" THEN <<LABEL_LINK>>
    ELSE IF proto.type = "OUTPUT" THEN <<"Output">>
    ELSE IF proto.type = "STRING_LIST" THEN <<"List of strings">>
    ELSE IF proto.type = "LABEL_LIST" THEN <<"List of ", LABELS_LINK>>
    ELSE IF proto.type = "OUTPUT_LIST" THEN <<"List of outputs">>
    ELSE IF proto.type = "DISTRIBUTION_SET" THEN <<"Distribution Set">>
    ELSE IF proto.type = "LICENSE" THEN <<"License">>
    ELSE IF proto.type = "STRING_DICT"
         THEN <<"Dictionary mapping strings to string">>
    ELSE IF proto.type = "FILESET_ENTRY_LIST" THEN <<"List of FilesetEntry">>
    ELSE IF proto.type = "LABEL_LIST_DICT"
         THEN <<"Dictionary mapping strings to lists of ", LABELS_LINK>>
    ELSE IF proto.type = "STRING_LIST_DICT"
         THEN <<"Dictionary mapping strings to lists of strings">>
    ELSE IF proto.type = "BOOLEAN" THEN <<"Boolean">>
    ELSE IF proto.type = "TRISTATE" THEN <<"Tristate">>
    ELSE IF proto.type = "INTEGER_LIST" THEN <<"List of integers">>
    ELSE IF proto.type = "LABEL_DICT_UNARY" THEN <<"Label Dict Unary">>
    ELSE IF proto.type = "SELECTOR_LIST" THEN <<"Selector List">>
    ELSE IF proto.name = "name" THEN <<NAME_LINK>>
    ELSE <<"Unknown">>

\* The suffixes of _get_type_str with the default shown for every attribute
\* that has one.
TypeSuffixAlwaysDefault(proto) ==
    (IF proto.mandatory THEN <<"; Required">> ELSE <<"; Optional">>)
    \o (IF proto.has_default
        THEN <<"; Default is ", proto.default>> ELSE <<>>)

\* The suffixes _get_type_str appends to type_str.
TypeSuffix(proto) ==
    (IF proto.mandatory THEN <<"; Required">> ELSE <<"; Optional">>)
    \o (IF proto.has_default /\ ~proto.mandatory
        THEN <<"; Default is ", proto.default>> ELSE <<>>)

\* Attribute._get_type_str
get_type_str(proto) == TypeLabel(proto) \o TypeSuffix(proto)

\* Attribute.__init__: the public fields of the object.
Attribute(proto) ==
    [name |-> proto.name,
     type |-> get_type_str(proto),
     documentation |->
        IF proto.name = "name" /\ proto.documentation = <<>>
        THEN <<"A unique name for this rule.">>
        ELSE proto.documentation]

NoAttribute == [name |-> "", type |-> <<>>, documentation |-> <<>>]

\* The attribute messages the Attribute specification starts from.
AttrNames == {"name", "srcs"}
AttrDefaults == {<<FALSE, "">>, <<TRUE, "">>, <<TRUE, "1">>}
AttrDocs == {<<>>, <<"d">>}
AttrProtos ==
    {[name |-> n, type |-> t, mandatory |-> m, has_default |-> d[1],
      default |-> d[2], documentation |-> doc] :
        n \in AttrNames, t \in KnownTypes \cup OtherTypes, m \in BOOLEAN,
        d \in AttrDefaults, doc \in AttrDocs}

IdleAttrProto ==
    [name |-> "", type |-> "UNKNOWN", mandatory |-> FALSE,
     has_default |-> FALSE, default |-> "", documentation |-> <<>>]

\* attribute = Attribute(attr_proto)
AttributeInit ==
    /\ ~attr_done
    /\ attr_proto \in AttrProtos
    /\ attribute' = Attribute(attr_proto)
    /\ attr_done' = TRUE
    /\ UNCHANGED <<attr_proto, rule_proto, rule, rule_done,
                   args, ruleset, outcome, empty_called, is_empty>>

(***************************************************************************)
(* class Output                                                            *)
(***************************************************************************)
\* Output.__init__: the public fields of the object.
Output(proto) ==
    [template |-> proto.template, documentation |-> proto.documentation]

(***************************************************************************)
(* class Rule                                                              *)
(***************************************************************************)
\* The test `i < len(proto.attribute) - 1` of _get_signature off by one.
SeparatorAfterEvery(i, n) == i < n

\* The test `i < len(proto.attribute) - 1` of _get_signature (i from 0).
SeparatorAfter(i, n) == i < n - 1

\* '<a href="#%s.%s">%s</a>' % (proto.name, attr.name, attr.name)
Fragment(rule_name, attr_name) ==
    <<"<a href=\"#", rule_name, ".", attr_name, "\">", attr_name, "</a>">>

\* The loop of _get_signature from index i (from 0) on.
RECURSIVE SignatureLoop(_, _, _)
SignatureLoop(proto, i, signature) ==
    IF i >= Len(proto.attribute) THEN signature
    ELSE LET attr == proto.attribute[i + 1]
             s1 == signature \o Fragment(proto.name, attr.name)
             s2 == IF SeparatorAfter(i, Len(proto.attribute))
                   THEN s1 \o <<", ">> ELSE s1
         IN SignatureLoop(proto, i + 1, s2)

\* Rule._get_signature
get_signature(proto) ==
    SignatureLoop(proto, 0, <<proto.name, "(">>) \o <<")">>

\* The loop `for attribute in proto.attribute: self.attributes.append(...)`.
Attributes(protos) ==
    [i \in 1..Len(protos) |-> Attribute(protos[i])]

\* Rule.__init__: the public fields of the object.
Rule(proto) ==
    [name |-> proto.name,
     type |-> proto.type,
     documentation |-> proto.documentation,
     example_documentation |-> proto.example_documentation,
     signature |-> get_signature(proto),
     attributes |-> Attributes(proto.attribute),
     outputs |-> [i \in 1..Len(proto.output) |-> Output(proto.output[i])],
     short_documentation |-> FirstParagraph(proto.documentation)]

\* The attribute messages rules are made of in the Rule and RuleSet
\* specifications.
AttrPool ==
    {[name |-> "name", type |-> "UNKNOWN", mandatory |-> TRUE,
      has_default |-> FALSE, default |-> "", documentation |-> <<>>],
     [name |-> "srcs", type |-> "LABEL_LIST", mandatory |-> FALSE,
      has_default |-> FALSE, default |-> "", documentation |-> <<"d">>],
     [name |-> "deps", type |-> "LABEL_LIST", mandatory |-> FALSE,
      has_default |-> TRUE, default |-> "[]", documentation |-> <<"d">>]}

SeqsUpTo(S, n) == UNION {[1..k -> S] : k \in 0..n}

RuleDocs == {<<>>, <<"s">>, <<"s", "\n", "\n", "m", "\n", "\n", "e">>}

OutputProtos ==
    {<<>>, <<[template |-> "%{name}.jar", documentation |-> <<"o">>]>>}

\* The rule messages the Rule specification starts from.
RuleProtos ==
    {[name |-> n, type |-> "RULE", documentation |-> doc,
      example_documentation |-> <<>>, attribute |-> attrs, output |-> outs] :
        n \in {"my_rule", "r"}, doc \in RuleDocs,
        attrs \in SeqsUpTo(AttrPool, MaxAttrs), outs \in OutputProtos}

IdleRuleProto ==
    [name |-> "", type |-> "RULE", documentation |-> <<>>,
     example_documentation |-> <<>>, attribute |-> <<>>, output |-> <<>>]

NoRule == Rule(IdleRuleProto)

\* rule = Rule(rule_proto)
RuleInit ==
    /\ ~rule_done
    /\ rule_proto \in RuleProtos
    /\ rule' = Rule(rule_proto)
    /\ rule_done' = TRUE
    /\ UNCHANGED <<attr_proto, attribute, attr_done, rule_proto,
                   args, ruleset, outcome, empty_called, is_empty>>

(***************************************************************************)
(* class RuleSet                                                           *)
(***************************************************************************)
RuleKinds == {"RULE", "MACRO", "REPOSITORY_RULE"}

\* `file_extension = 'html' if format == 'html' else 'md'`; the constructor
\* does not read file_extension afterwards.
FileExtension(format) ==
    IF format = "html" THEN <<"h", "t", "m", "l">> ELSE <<"m", "d">>

\* The assert on the source path switched off.
PrefixAssertOff(bzl_file, strip_prefix) == TRUE

\* The condition of `assert self.bzl_file.startswith(strip_prefix)`.
PrefixAssert(bzl_file, strip_prefix) == startswith(bzl_file, strip_prefix)

\* The assert on the kind tag switched off.
KindAssertOff(type) == TRUE

\* The condition of
\* `assert rule_proto.type == build_pb2.RuleDefinition.REPOSITORY_RULE`.
KindAssert(type) == type = "REPOSITORY_RULE"

\* The loop body with macros appended to self.rules.
AppendDefinitionMacrosAsRules(st, proto) ==
    LET definition == Rule(proto)
        s1 == [st EXCEPT !.self.definitions = Append(@, definition)]
    IN IF proto.type \in {"RULE", "MACRO"}
       THEN [s1 EXCEPT !.self.rules = Append(@, definition)]
       ELSE IF ~KindAssert(proto.type)
       THEN [s1 EXCEPT !.raised = TRUE]
       ELSE [s1 EXCEPT !.self.repository_rules = Append(@, definition)]

\* The body of `for rule_proto in language.rule`; st.raised records that an
\* AssertionError left the constructor.
AppendDefinition(st, proto) ==
    LET definition == Rule(proto)
        s1 == [st EXCEPT !.self.definitions = Append(@, definition)]
    IN IF proto.type = "RULE"
       THEN [s1 EXCEPT !.self.rules = Append(@, definition)]
       ELSE IF proto.type = "MACRO"
       THEN [s1 EXCEPT !.self.macros = Append(@, definition)]
       ELSE IF ~KindAssert(proto.type)
       THEN [s1 EXCEPT !.raised = TRUE]
       ELSE [s1 EXCEPT !.self.repository_rules = Append(@, definition)]

\* `for rule_proto in language.rule: ...`, left at the first failed assert.
RECURSIVE Populate(_, _)
Populate(st, protos) ==
    IF protos = <<>> \/ st.raised THEN st
    ELSE Populate(AppendDefinition(st, Head(protos)), Tail(protos))

\* The fields of a RuleSet object no statement has assigned yet.
NoRuleSet ==
    [bzl_file |-> <<>>, name |-> <<>>, language |-> [rule |-> <<>>],
     title |-> <<>>, description |-> <<>>, output_file |-> <<>>,
     definitions |-> <<>>, rules |-> <<>>, repository_rules |-> <<>>,
     macros |-> <<>>]

\* RuleSet.__init__(bzl_file, language, title, description, strip_prefix,
\* format): the object's fields and whether an assert failed on the way.
RuleSetInit(a) ==
    LET file_basename == basename(a.bzl_file)
        name == replace_bzl(file_basename)
        s1 == [NoRuleSet EXCEPT
                 !.bzl_file = a.bzl_file,
                 !.name = name,
                 !.language = a.language,
                 !.title = IF a.title # <<>> THEN a.title
                           ELSE name \o <<" Rules">>,
                 !.description = a.description]
        file_extension == FileExtension(a.format)
        output_path == replace_bzl(a.bzl_file)
        s2 == [s1 EXCEPT
                 !.output_file = DropFirst(output_path, Len(a.strip_prefix))]
    IN IF ~PrefixAssert(a.bzl_file, a.strip_prefix)
       THEN [raised |-> TRUE, self |-> s1]
       ELSE Populate([raised |-> FALSE, self |-> s2], a.language.rule)

\* The test of RuleSet.empty over two of the three groupings.
emptyForgetsRepositoryRules(self) ==
    ~\E group \in {self.rules, self.macros} : group # <<>>

\* RuleSet.empty: not any([self.rules, self.macros, self.repository_rules])
empty(self) ==
    ~\E group \in {self.rules, self.macros, self.repository_rules} :
        group # <<>>

\* ruleset = RuleSet(bzl_file, language, title, description, strip_prefix,
\* format).  When an assert fails the caller gets the exception and no
\* object.
RuleSetConstruct ==
    /\ outcome = "pending"
    /\ LET st == RuleSetInit(args)
       IN IF st.raised
          THEN /\ outcome' = "AssertionError"
               /\ ruleset' = NoRuleSet
          ELSE /\ outcome' = "constructed"
               /\ ruleset' = st.self
    /\ UNCHANGED <<attr_proto, attribute, attr_done, rule_proto, rule,
                   rule_done, args, empty_called, is_empty>>

\* ruleset.empty()
CallEmpty ==
    /\ outcome = "constructed"
    /\ ~empty_called
    /\ empty_called' = TRUE
    /\ is_empty' = empty(ruleset)
    /\ UNCHANGED <<attr_proto, attribute, attr_done, rule_proto, rule,
                   rule_done, args, ruleset, outcome>>

(***************************************************************************)
(* Inputs of the RuleSet specifications.                                   *)
(***************************************************************************)
\* Source paths are made of these pieces.
Pieces == {<<"a">>, <<"/">>, BZL}

RECURSIVE Flatten(_)
Flatten(ps) == IF ps = <<>> THEN <<>> ELSE Head(ps) \o Flatten(Tail(ps))

Paths(n) == {Flatten(ps) : ps \in SeqsUpTo(Pieces, n)}

\* A rule message of the given name and kind tag.
Entry(n, kind) ==
    [name |-> n, type |-> kind, documentation |-> <<"s">>,
     example_documentation |-> <<>>,
     attribute |-> IF n = "a" THEN <<>>
                   ELSE <<CHOOSE p \in AttrPool : p.name = "name">>,
     output |-> <<>>]

\* Kind tags of build_pb2.RuleDefinition outside the three the code names.
OtherKinds == {"UNKNOWN_KIND"}

EntryPool == {Entry(n, k) : n \in {"a", "b"}, k \in RuleKinds \cup OtherKinds}

IdleArgs ==
    [bzl_file |-> <<>>, language |-> [rule |-> <<>>], title |-> <<>>,
     description |-> <<>>, strip_prefix |-> <<>>, format |-> "html"]

\* Arguments that vary the source path, the prefix, the title and the format.
PathArgs ==
    {[bzl_file |-> f, language |-> [rule |-> rs], title |-> t,
      description |-> <<"d">>, strip_prefix |-> sp, format |-> fmt] :
        f \in Paths(MaxPieces), sp \in Paths(MaxPieces - 2),
        t \in {<<>>, <<"T">>}, fmt \in {"html", "markdown"},
        rs \in {<<>>, <<Entry("b", "MACRO")>>}}

\* Arguments that vary the rule entries.
PartitionArgs ==
    {[bzl_file |-> <<"a", "/", "a">> \o BZL, language |-> [rule |-> rs],
      title |-> <<>>, description |-> <<"d">>, strip_prefix |-> sp,
      format |-> "html"] :
        rs \in SeqsUpTo(EntryPool, MaxRules), sp \in {<<>>, <<"a", "/">>}}

(***************************************************************************)
(* Specifications: one per class, each starting from the inputs of its     *)
(* constructor.                                                            *)
(***************************************************************************)
AttrIdle ==
    /\ attr_proto = IdleAttrProto /\ attribute = NoAttribute /\ attr_done = FALSE

RuleIdle ==
    /\ rule_proto = IdleRuleProto /\ rule = NoRule /\ rule_done = FALSE

RuleSetIdle ==
    /\ args = IdleArgs /\ ruleset = NoRuleSet /\ outcome = "idle"
    /\ empty_called = FALSE /\ is_empty = FALSE

RuleSetStart(inputs) ==
    /\ args \in inputs /\ ruleset = NoRuleSet /\ outcome = "pending"
    /\ empty_called = FALSE /\ is_empty = FALSE

InitAttr ==
    /\ attr_proto \in AttrProtos /\ attribute = NoAttribute /\ attr_done = FALSE
    /\ RuleIdle /\ RuleSetIdle

InitRule ==
    /\ rule_proto \in RuleProtos /\ rule = NoRule /\ rule_done = FALSE
    /\ AttrIdle /\ RuleSetIdle

InitPath == AttrIdle /\ RuleIdle /\ RuleSetStart(PathArgs)

InitPartition == AttrIdle /\ RuleIdle /\ RuleSetStart(PartitionArgs)

NextAttr == AttributeInit

NextRule == RuleInit

NextRuleSet == RuleSetConstruct \/ CallEmpty

SpecAttr == InitAttr /\ [][NextAttr]_vars

SpecRule == InitRule /\ [][NextRule]_vars

SpecPath == InitPath /\ [][NextRuleSet]_vars

SpecPartition == InitPartition /\ [][NextRuleSet]_vars

(***************************************************************************)
(* Properties of RuleSet: the groupings.                                   *)
(***************************************************************************)
KindCount(protos, kind) ==
    Cardinality({i \in 1..Len(protos) : protos[i].type = kind})

OfKind(defs, kind) == SelectSeq(defs, LAMBDA d : d.type = kind)

\* C1: a RuleSet constructed from N entries of kind RULE, M of kind MACRO and
\* K of kind REPOSITORY_RULE has N+M+K definitions, one per entry in input
\* order, N rules, M macros and K repository_rules; the three groupings
\* together hold every definition once, and each is the sub-sequence of
\* definitions of its kind, in order.
C1_Partitioning ==
    outcome = "constructed" =>
        LET entries == args.language.rule
            N == KindCount(entries, "RULE")
            M == KindCount(entries, "MACRO")
            K == KindCount(entries, "REPOSITORY_RULE")
        IN /\ Len(ruleset.definitions) = N + M + K
           /\ Len(ruleset.definitions) = Len(entries)
           /\ \A i \in 1..Len(entries) :
                 /\ ruleset.definitions[i].name = entries[i].name
                 /\ ruleset.definitions[i].type = entries[i].type
           /\ Len(ruleset.rules) = N
           /\ Len(ruleset.macros) = M
           /\ Len(ruleset.repository_rules) = K
           /\ ruleset.rules = OfKind(ruleset.definitions, "RULE")
           /\ ruleset.macros = OfKind(ruleset.definitions, "MACRO")
           /\ ruleset.repository_rules =
                 OfKind(ruleset.definitions, "REPOSITORY_RULE")

\* A RuleSet constructed from entries of all three kinds, a macro first.
C1_Witness ==
    /\ outcome = "constructed"
    /\ Len(ruleset.rules) >= 1
    /\ Len(ruleset.macros) >= 1
    /\ Len(ruleset.repository_rules) >= 1
    /\ ruleset.definitions[1].type = "MACRO"

HasOtherKind(entries) ==
    \E i \in 1..Len(entries) : entries[i].type \notin RuleKinds

\* C4: when an entry carries a kind tag other than RULE, MACRO and
\* REPOSITORY_RULE, the construction ends in an assertion failure and the
\* caller holds no RuleSet: it never completes with the entry dropped from,
\* or placed in, a grouping.
C4_OtherKindFails ==
    (outcome # "pending" /\ HasOtherKind(args.language.rule)) =>
        /\ outcome = "AssertionError"
        /\ ruleset = NoRuleSet
        /\ ~empty_called

\* A failed construction whose entries are a rule followed by an entry of
\* another kind.
C4_Witness ==
    /\ outcome = "AssertionError"
    /\ Len(args.language.rule) >= 2
    /\ args.language.rule[1].type = "RULE"
    /\ args.language.rule[2].type \notin RuleKinds

\* C5: empty() returns true exactly when rules, macros and repository_rules
\* are all empty, and then definitions is empty too.
C5_Empty ==
    empty_called =>
        /\ is_empty <=> (/\ Len(ruleset.rules) = 0
                         /\ Len(ruleset.macros) = 0
                         /\ Len(ruleset.repository_rules) = 0)
        /\ is_empty => Len(ruleset.definitions) = 0

\* empty() has returned true for a constructed RuleSet.
C5_Witness ==
    /\ outcome = "constructed" /\ empty_called /\ is_empty
    /\ args.language.rule = <<>>

(***************************************************************************)
(* Properties of RuleSet: the paths.                                       *)
(***************************************************************************)
endswith(s, suffix) ==
    /\ Len(suffix) <= Len(s)
    /\ SubSeq(s, Len(s) - Len(suffix) + 1, Len(s)) = suffix

\* A path with its extension removed: the trailing '.bzl' only.
WithoutExtension(p) ==
    IF endswith(p, BZL) THEN SubSeq(p, 1, Len(p) - Len(BZL)) ELSE p

\* A '.bzl' file with a stem: a path ending in 'a.bzl'.
IsBzlFile(p) == endswith(p, <<"a">> \o BZL)

\* A directory prefix: empty, or ending in '/'.
IsDirPrefix(sp) == sp = <<>> \/ sp[Len(sp)] = "/"

\* C2: for a source path that starts with the strip-prefix, the output path
\* is the source path with its extension removed and then its first
\* len(strip_prefix) characters removed, also when the prefix or a middle
\* segment contains '.bzl'.  Stated for '.bzl' files under a directory prefix
\* that ends before the file's stem.
C2_OutputPath ==
    (/\ outcome = "constructed"
     /\ IsBzlFile(args.bzl_file)
     /\ IsDirPrefix(args.strip_prefix)
     /\ Len(args.strip_prefix) < Len(args.bzl_file) - Len(BZL)) =>
        ruleset.output_file =
            DropFirst(WithoutExtension(args.bzl_file), Len(args.strip_prefix))

\* C3: when the source path does not start with the strip-prefix, the
\* construction fails and the caller holds no RuleSet, whatever the entries,
\* the title and the format.
C3_PrefixMismatchFails ==
    (outcome # "pending" /\ ~startswith(args.bzl_file, args.strip_prefix)) =>
        /\ outcome = "AssertionError"
        /\ ruleset = NoRuleSet
        /\ ~empty_called

\* A failed construction on a path that does not start with the prefix,
\* with an entry and a title given.
C3_Witness ==
    /\ outcome = "AssertionError"
    /\ ~startswith(args.bzl_file, args.strip_prefix)
    /\ args.language.rule # <<>>
    /\ args.title # <<>>

\* C8: the output path carries the extension chosen by the format, so the
\* output paths for 'html' and for another format differ.  Stated for '.bzl'
\* files.
C8_FormatInOutputPath ==
    (outcome = "constructed" /\ IsBzlFile(args.bzl_file)) =>
        /\ endswith(ruleset.output_file, FileExtension(args.format))
        /\ RuleSetInit([args EXCEPT !.format = "html"]).self.output_file
             # RuleSetInit([args EXCEPT !.format = "markdown"]).self.output_file

\* C10: the unit name is the base name of the source path with only the
\* trailing '.bzl' removed, and the title is the given title when it is not
\* empty and '{unit name} Rules' otherwise.  Stated for '.bzl' files.
C10_NameAndTitle ==
    (outcome = "constructed" /\ IsBzlFile(args.bzl_file)) =>
        LET unit == WithoutExtension(basename(args.bzl_file))
        IN /\ ruleset.name = unit
           /\ ruleset.title = IF args.title # <<>> THEN args.title
                              ELSE unit \o <<" Rules">>

(***************************************************************************)
(* Properties of Attribute.                                                *)
(***************************************************************************)
RequirednessMarks == {"; Required", "; Optional"}

\* The positions of the requiredness mark in a display-type string.
MarkPositions(t) == {i \in 1..Len(t) : t[i] \in RequirednessMarks}

\* The base type label: the display-type string before the mark.
BaseLabel(t) ==
    SubSeq(t, 1, (CHOOSE i \in MarkPositions(t) : TRUE) - 1)

\* C6: the display-type string is a base label, then '; Required' when the
\* attribute is mandatory and '; Optional' otherwise, then '; Default is '
\* and the default text exactly when a default is present and the attribute
\* is not mandatory.
C6_TypeSuffix ==
    attr_done =>
        LET t == attribute.type
        IN /\ Cardinality(MarkPositions(t)) = 1
           /\ LET p == CHOOSE i \in MarkPositions(t) : TRUE
              IN /\ p > 1
                 /\ t[p] = IF attr_proto.mandatory
                           THEN "; Required" ELSE "; Optional"
                 /\ IF attr_proto.has_default /\ ~attr_proto.mandatory
                    THEN SubSeq(t, p + 1, Len(t))
                            = <<"; Default is ", attr_proto.default>>
                    ELSE Len(t) = p

\* A mandatory attribute with a default: its display-type string ends at
\* '; Required'.
C6_Witness ==
    /\ attr_done
    /\ attr_proto.mandatory
    /\ attr_proto.has_default
    /\ attribute.type[Len(attribute.type)] = "; Required"

\* The label documented for each known tag.
CanonicalLabel(tag) ==
    CASE tag = "INTEGER" -> <<"Integer">>
      [] tag = "STRING" -> <<"String">>
      [] tag = "LABEL" -> <<LABEL_LINK>>
      [] tag = "OUTPUT" -> <<"Output">>
      [] tag = "STRING_LIST" -> <<"List of strings">>
      [] tag = "LABEL_LIST" -> <<"List of ", LABELS_LINK>>
      [] tag = "OUTPUT_LIST" -> <<"List of outputs">>
      [] tag = "DISTRIBUTION_SET" -> <<"Distribution Set">>
      [] tag = "LICENSE" -> <<"License">>
      [] tag = "STRING_DICT" -> <<"Dictionary mapping strings to string">>
      [] tag = "FILESET_ENTRY_LIST" -> <<"List of FilesetEntry">>
      [] tag = "LABEL_LIST_DICT" ->
            <<"Dictionary mapping strings to lists of ", LABELS_LINK>>
      [] tag = "STRING_LIST_DICT" ->
            <<"Dictionary mapping strings to lists of strings">>
      [] tag = "BOOLEAN" -> <<"Boolean">>
      [] tag = "TRISTATE" -> <<"Tristate">>
      [] tag = "INTEGER_LIST" -> <<"List of integers">>
      [] tag = "LABEL_DICT_UNARY" -> <<"Label Dict Unary">>
      [] tag = "SELECTOR_LIST" -> <<"Selector List">>

\* C7 as stated: an attribute named 'name' gets the 'Name' link whatever its
\* tag; any other attribute gets the canonical label of a known tag and
\* 'Unknown' for a tag outside the known set.
C7_NameLinkWhateverTag ==
    attr_done =>
        BaseLabel(attribute.type) =
            IF attr_proto.name = "name" THEN <<NAME_LINK>>
            ELSE IF attr_proto.type \in KnownTypes
                 THEN CanonicalLabel(attr_proto.type)
                 ELSE <<"Unknown">>

\* C7 as amended: an attribute with a known tag gets the canonical label of
\* the tag, also when it is named 'name'; with a tag outside the known set
\* it gets the 'Name' link when it is named 'name' and 'Unknown' otherwise.
C7_NameLinkForOtherTags ==
    attr_done =>
        BaseLabel(attribute.type) =
            IF attr_proto.type \in KnownTypes
            THEN CanonicalLabel(attr_proto.type)
            ELSE IF attr_proto.name = "name" THEN <<NAME_LINK>>
                 ELSE <<"Unknown">>

\* An attribute named 'name' with a known tag, labelled by the tag.
C7_Witness ==
    /\ attr_done
    /\ attr_proto.name = "name"
    /\ attr_proto.type = "STRING"
    /\ BaseLabel(attribute.type) = <<"String">>

(***************************************************************************)
(* Properties of Rule.                                                     *)
(***************************************************************************)
\* C9: the signature is the rule name, '(', one link fragment per attribute
\* in declaration order (duplicates included) separated by ', ' with no
\* trailing separator, then ')'; without attributes it is '{name}()'; the
\* attributes of the Rule have the same length and name order.
C9_Signature ==
    rule_done =>
        LET attrs == rule_proto.attribute
            n == Len(attrs)
            nm == rule_proto.name
            sig == rule.signature
            \* a fragment has 7 atoms and is followed by a separator or ')'
            start(i) == 2 + 8 * (i - 1)
        IN /\ Len(sig) = IF n = 0 THEN 3 ELSE 2 + 8 * n
           /\ sig[1] = nm
           /\ sig[2] = "("
           /\ sig[Len(sig)] = ")"
           /\ n = 0 => sig = <<nm, "(", ")">>
           /\ \A i \in 1..n :
                 SubSeq(sig, start(i) + 1, start(i) + 7) =
                    <<"<a href=\"#", nm, ".", attrs[i].name, "\">",
                      attrs[i].name, "</a>">>
           /\ \A i \in 1..(n - 1) : sig[start(i) + 8] = ", "
           /\ Len(rule.attributes) = n
           /\ \A i \in 1..n : rule.attributes[i].name = attrs[i].name

\* A rule with three attributes, the first two of the same name.
C9_Witness ==
    /\ rule_done
    /\ Len(rule_proto.attribute) = 3
    /\ rule_proto.attribute[1].name = rule_proto.attribute[2].name
    /\ rule_proto.attribute[3].name # rule_proto.attribute[1].name
    /\ Len(rule.attributes) = 3

====
